---- MODULE Spec2Model ----
(***************************************************************************)
(* Model of Scraping_Google_Patents_1.4.py: one run of the script (prompt, *)
(* mkdir, fetch, field extraction, claim parsing, JSON write).             *)
(*                                                                         *)
(* Strings are sequences of one-character strings, so that the regular     *)
(* expressions of the script are matched character by character.  An       *)
(* optional node (the result of soup.find) is a sequence of length 0 or 1. *)
(***************************************************************************)
EXTENDS Integers, Sequences, FiniteSets

VARIABLES pc, url, out_dir, fetches, error, soup, claim_nodes, claims,
          alt_used, data, files, printed

vars == <<pc, url, out_dir, fetches, error, soup, claim_nodes, claims,
          alt_used, data, files, printed>>

(***************************************************************************)
(* Character classes of Python's re module, on the alphabet of the model.  *)
(***************************************************************************)
\* \s
IsSpace(c) == c \in {" ", "\t", "\n"}

\* \d
IsDigit(c) == c \in {"0", "1", "2", "3", "4", "5", "6", "7", "8", "9"}

\* int() of one digit
DigitVal(c) ==
  CASE c = "0" -> 0 [] c = "1" -> 1 [] c = "2" -> 2 [] c = "3" -> 3
    [] c = "4" -> 4 [] c = "5" -> 5 [] c = "6" -> 6 [] c = "7" -> 7
    [] c = "8" -> 8 [] c = "9" -> 9

\* re.IGNORECASE folding of the letters the model uses
Lower(c) ==
  CASE c = "A" -> "a" [] c = "B" -> "b" [] c = "S" -> "s" [] c = "T" -> "t"
    [] c = "R" -> "r" [] c = "C" -> "c" [] OTHER -> c

\* [A-Za-z]
IsLetter(c) ==
  c \in {"A", "B", "C", "D", "E", "F", "G", "H", "I", "J", "K", "L", "M",
         "N", "O", "P", "Q", "R", "S", "T", "U", "V", "W", "X", "Y", "Z",
         "a", "b", "c", "d", "e", "f", "g", "h", "i", "j", "k", "l", "m",
         "n", "o", "p", "q", "r", "s", "t", "u", "v", "w", "x", "y", "z"}

\* [A-Za-z0-9_-]
IsSlugChar(c) == IsLetter(c) \/ IsDigit(c) \/ c \in {"_", "-"}

(***************************************************************************)
(* Generic sequence helpers.                                               *)
(***************************************************************************)
Drop(s, n) == SubSeq(s, n + 1, Len(s))

Take(s, n) == SubSeq(s, 1, n)

\* number of leading elements of s for which the character class holds
RECURSIVE SpanSpace(_)
SpanSpace(s) ==
  IF s # <<>> /\ IsSpace(Head(s)) THEN 1 + SpanSpace(Tail(s)) ELSE 0

RECURSIVE SpanDigit(_)
SpanDigit(s) ==
  IF s # <<>> /\ IsDigit(Head(s)) THEN 1 + SpanDigit(Tail(s)) ELSE 0

\* str.strip()
LStrip(s) == Drop(s, SpanSpace(s))

RECURSIVE RStrip(_)
RStrip(s) ==
  IF s # <<>> /\ IsSpace(s[Len(s)]) THEN RStrip(Take(s, Len(s) - 1)) ELSE s

Strip(s) == RStrip(LStrip(s))

\* re.sub(r"\s+", " ", s)
RECURSIVE CollapseSpaces(_)
CollapseSpaces(s) ==
  IF s = <<>> THEN <<>>
  ELSE IF IsSpace(Head(s))
       THEN <<" ">> \o CollapseSpaces(Drop(s, SpanSpace(s)))
       ELSE <<Head(s)>> \o CollapseSpaces(Tail(s))

\* clean_text: collapse whitespace runs, then strip
clean_text(s) == Strip(CollapseSpaces(s))

(***************************************************************************)
(* normalize_abstract                                                      *)
(***************************************************************************)
LabelWord == <<"a", "b", "s", "t", "r", "a", "c", "t">>

\* whether s starts with the word "Abstract", ignoring case
StartsWithLabel(s) ==
  /\ Len(s) >= Len(LabelWord)
  /\ \A i \in 1..Len(LabelWord) : Lower(s[i]) = LabelWord[i]

\* [:\s-]*
RECURSIVE SpanLabelTail(_)
SpanLabelTail(s) ==
  IF s # <<>> /\ (IsSpace(Head(s)) \/ Head(s) \in {":", "-"})
  THEN 1 + SpanLabelTail(Tail(s)) ELSE 0

\* StripLabel without the [:\s-]* after the word
StripLabelWordOnly(text) ==
  LET body == LStrip(text) IN
  IF StartsWithLabel(body) THEN Drop(body, Len(LabelWord)) ELSE text

\* re.sub(r"^\s*Abstract[:\s-]*", "", text, flags=re.IGNORECASE)
StripLabel(text) ==
  LET body == LStrip(text) IN
  IF StartsWithLabel(body)
  THEN LET rest == Drop(body, Len(LabelWord)) IN Drop(rest, SpanLabelTail(rest))
  ELSE text

normalize_abstract(text) ==
  IF text = <<>> THEN <<>> ELSE StripLabel(clean_text(text))

(***************************************************************************)
(* Claim location: the primary filter and the fallback split.              *)
(***************************************************************************)
\* re.match(r"^\d+\.\s", txt)
MatchNumDotSpace(txt) ==
  LET n == SpanDigit(txt) IN
  /\ n >= 1
  /\ Len(txt) >= n + 2
  /\ txt[n + 1] = "."
  /\ IsSpace(txt[n + 2])

\* re.match(r"^\d+\s", txt)
MatchNumSpace(txt) ==
  LET n == SpanDigit(txt) IN
  /\ n >= 1
  /\ Len(txt) >= n + 1
  /\ IsSpace(txt[n + 1])

\* LooksLikeClaim with the whitespace after the dot not required
LooksLikeClaimNoSpace(txt) ==
  \/ MatchNumSpace(txt)
  \/ LET n == SpanDigit(txt) IN n >= 1 /\ Len(txt) >= n + 1 /\ txt[n + 1] = "."

\* the condition of line 231
LooksLikeClaim(txt) == MatchNumDotSpace(txt) \/ MatchNumSpace(txt)

\* the loop of lines 229-232 over the selected nodes' texts
PrimaryAccepted(texts) ==
  SelectSeq([i \in 1..Len(texts) |-> clean_text(texts[i])], LooksLikeClaim)

\* the offsets at which (?=(?:\s|^)\d+\.\s) matches in s
SplitOffsets(s) ==
  {i \in 0..Len(s) :
     \/ i = 0 /\ MatchNumDotSpace(s)
     \/ i < Len(s) /\ IsSpace(s[i + 1]) /\ MatchNumDotSpace(Drop(s, i + 1))}

\* re.split on the empty matches at offsets `offs` (Python >= 3.7), from offset `from`
RECURSIVE SplitAt(_, _, _)
SplitAt(s, offs, from) ==
  LET later == {o \in offs : o >= from} IN
  IF later = {} THEN <<Drop(s, from)>>
  ELSE LET o == CHOOSE x \in later : \A y \in later : x <= y IN
       <<SubSeq(s, from + 1, o)>> \o SplitAt(s, offs \ {o}, o)

\* re.split(r"(?=(?:\s|^)\d+\.\s)", " " + txt)
SplitBlob(txt) ==
  LET s == <<" ">> \o txt IN SplitAt(s, SplitOffsets(s), 0)

\* lines 240-241: the segments that, cleaned, start with "<number>. "
FallbackParts(txt) ==
  SelectSeq([i \in 1..Len(SplitBlob(txt)) |-> clean_text(SplitBlob(txt)[i])],
            MatchNumDotSpace)

\* the loop of lines 237-244: the parts of the first container that has any
RECURSIVE FallbackClaims(_)
FallbackClaims(alt) ==
  IF alt = <<>> THEN <<>>
  ELSE LET parts == FallbackParts(clean_text(Head(alt))) IN
       IF parts # <<>> THEN parts ELSE FallbackClaims(Tail(alt))

(***************************************************************************)
(* Claim parsing and deduplication (lines 246-265).                        *)
(***************************************************************************)
\* ParseMatches with the dot optional: ^(\d+)\.?\s*(.*)
ParseMatchesDotOptional(c) == SpanDigit(c) >= 1

\* whether re.match(r"^(\d+)\.\s*(.*)", c) matches
ParseMatches(c) ==
  LET n == SpanDigit(c) IN n >= 1 /\ Len(c) >= n + 1 /\ c[n + 1] = "."

\* m.group(1)
ParseGroup1(c) == Take(c, SpanDigit(c))

\* the characters "." matches: up to the first newline
RECURSIVE SpanDot(_)
SpanDot(s) == IF s # <<>> /\ Head(s) # "\n" THEN 1 + SpanDot(Tail(s)) ELSE 0

\* m.group(2)
ParseGroup2(c) ==
  LET after == Drop(c, SpanDigit(c) + 1)
      rest  == Drop(after, SpanSpace(after))
  IN  Take(rest, SpanDot(rest))

\* ToInt of the first digit only, as if the group were (\d)
ToIntFirstDigit(ds) == IF ds = <<>> THEN 0 ELSE DigitVal(ds[1])

\* int() of a digit string
RECURSIVE ToInt(_)
ToInt(ds) ==
  IF ds = <<>> THEN 0
  ELSE 10 * ToInt(Take(ds, Len(ds) - 1)) + DigitVal(ds[Len(ds)])

\* the dict appended at lines 259-262
MakeClaim(c) ==
  [claim_number |-> ToInt(ParseGroup1(c)), text |-> Strip(ParseGroup2(c))]

\* ParseLoop with a repeated number overwriting the entry it repeats
RECURSIVE ParseLoopLastWins(_, _, _)
ParseLoopLastWins(cs, parsed_claims, seen_nums) ==
  IF cs = <<>> THEN parsed_claims
  ELSE LET c == Head(cs) IN
       IF ~ParseMatches(c) THEN ParseLoopLastWins(Tail(cs), parsed_claims, seen_nums)
       ELSE LET num == ToInt(ParseGroup1(c)) IN
            IF num \notin seen_nums
            THEN ParseLoopLastWins(Tail(cs), Append(parsed_claims, MakeClaim(c)),
                                   seen_nums \cup {num})
            ELSE ParseLoopLastWins(
                   Tail(cs),
                   [k \in 1..Len(parsed_claims) |->
                      IF parsed_claims[k].claim_number = num
                      THEN MakeClaim(c) ELSE parsed_claims[k]],
                   seen_nums)

\* the loop of lines 250-263 with its two accumulators
RECURSIVE ParseLoop(_, _, _)
ParseLoop(cs, parsed_claims, seen_nums) ==
  IF cs = <<>> THEN parsed_claims
  ELSE LET c == Head(cs) IN
       IF ~ParseMatches(c) THEN ParseLoop(Tail(cs), parsed_claims, seen_nums)
       ELSE LET num == ToInt(ParseGroup1(c)) IN
            IF num \notin seen_nums
            THEN ParseLoop(Tail(cs), Append(parsed_claims, MakeClaim(c)),
                           seen_nums \cup {num})
            ELSE ParseLoop(Tail(cs), parsed_claims, seen_nums)

ParseClaims(cs) == ParseLoop(cs, <<>>, {})

(***************************************************************************)
(* The output file name (lines 290-292).                                   *)
(***************************************************************************)
PatentWord == <<"p", "a", "t", "e", "n", "t">>

\* number of leading characters outside [A-Za-z0-9_-]
RECURSIVE SpanBad(_)
SpanBad(s) ==
  IF s # <<>> /\ ~IsSlugChar(Head(s)) THEN 1 + SpanBad(Tail(s)) ELSE 0

\* SubBadRuns without the "+": one underscore per character
SubBadChars(s) == [i \in 1..Len(s) |-> IF IsSlugChar(s[i]) THEN s[i] ELSE "_"]

\* re.sub(r"[^A-Za-z0-9_-]+", "_", slug)
RECURSIVE SubBadRuns(_)
SubBadRuns(s) ==
  IF s = <<>> THEN <<>>
  ELSE IF ~IsSlugChar(Head(s))
       THEN <<"_">> \o SubBadRuns(Drop(s, SpanBad(s)))
       ELSE <<Head(s)>> \o SubBadRuns(Tail(s))

\* data["publication_number"] or "patent", then the substitution
Slug(publication_number) ==
  SubBadRuns(IF publication_number = <<>> THEN PatentWord ELSE publication_number)

(***************************************************************************)
(* scrape_google_patents: field location on the parsed page.  A page is a  *)
(* record of what the script's lookups find in it:                         *)
(*   dc_title, pub_meta, desc_meta  the content attribute of the meta tag  *)
(*                                  (<<>>: no such tag)                    *)
(*   title_el, abs_node             the visible text of the element        *)
(*   claim_els                      the elements of class "claim", in      *)
(*                                  document order, each with its text and *)
(*                                  whether it lies inside an              *)
(*                                  [itemprop='claims'] / a .claims element*)
(*   itemprop_boxes, section_boxes  the visible text of the elements       *)
(*                                  [itemprop='claims'] / section#claims   *)
(*   nbytes                         len(r.content)                         *)
(***************************************************************************)
\* t and t.get("content"): the tag exists and its content is not empty
HasContent(meta) == meta # <<>> /\ meta[1] # <<>>

\* lines 202-207
ExtractTitle(page) ==
  IF HasContent(page.dc_title) THEN clean_text(page.dc_title[1])
  ELSE IF page.title_el # <<>> THEN clean_text(page.title_el[1])
  ELSE <<>>

\* lines 210-213
ExtractPubNum(page) ==
  IF HasContent(page.pub_meta) THEN clean_text(page.pub_meta[1]) ELSE <<>>

\* ExtractAbstract falling back to the meta tag when the element's text is empty
ExtractAbstractSkipEmpty(page) ==
  IF page.abs_node # <<>> /\ page.abs_node[1] # <<>>
  THEN normalize_abstract(page.abs_node[1])
  ELSE IF HasContent(page.desc_meta) THEN normalize_abstract(page.desc_meta[1])
  ELSE <<>>

\* lines 216-223
ExtractAbstract(page) ==
  IF page.abs_node # <<>> THEN normalize_abstract(page.abs_node[1])
  ELSE IF HasContent(page.desc_meta) THEN normalize_abstract(page.desc_meta[1])
  ELSE <<>>

\* the texts of the elements a selector matches
TextsOf(els) == [i \in 1..Len(els) |-> els[i].text]

InItemprop(el) == el.in_itemprop

InClaimsClass(el) == el.in_claims

\* soup.select("[itemprop='claims'] .claim")
SelectItempropClaim(page) == TextsOf(SelectSeq(page.claim_els, InItemprop))

\* soup.select(".claims .claim")
SelectClaimsClaim(page) == TextsOf(SelectSeq(page.claim_els, InClaimsClass))

\* soup.select(".claim")
SelectClaim(page) == TextsOf(page.claim_els)

\* SelectClaimNodes merging the matches of the three selectors
SelectClaimNodesMerged(page) ==
  SelectItempropClaim(page) \o SelectClaimsClaim(page) \o SelectClaim(page)

\* line 227: a or b or c, an empty result list being false
SelectClaimNodes(page) ==
  IF SelectItempropClaim(page) # <<>> THEN SelectItempropClaim(page)
  ELSE IF SelectClaimsClaim(page) # <<>> THEN SelectClaimsClaim(page)
  ELSE SelectClaim(page)

\* line 236: select("[itemprop='claims']") or select("section#claims") or []
SelectAlt(page) ==
  IF page.itemprop_boxes # <<>> THEN page.itemprop_boxes ELSE page.section_boxes

\* FallbackNeeded decided on the parsed claims instead of the accepted items
FallbackNeededAfterParse(primary) == ParseClaims(primary) = <<>>

\* line 235: if not claims
FallbackNeeded(primary) == primary = <<>>

\* lines 226-244: the list `claims` before parsing
LocateClaims(page) ==
  LET primary == PrimaryAccepted(SelectClaimNodes(page)) IN
  IF FallbackNeeded(primary) THEN FallbackClaims(SelectAlt(page)) ELSE primary

\* lines 268-277
MakeRecord(u, page, raw_claims) ==
  [source             |-> "google_patents",
   source_url         |-> u,
   publication_number |-> ExtractPubNum(page),
   title              |-> ExtractTitle(page),
   abstract           |-> ExtractAbstract(page),
   claims             |-> ParseClaims(raw_claims),
   raw_html_bytes     |-> page.nbytes]

(***************************************************************************)
(* The inputs: the URL typed at the prompt and the page the server sends.  *)
(* The pages come in families; each family varies one group of fields over *)
(* a bounded set and leaves the others absent.                             *)
(***************************************************************************)
MaxPieces == 3      \* pieces of an abstract text
MaxPubLen == 3      \* characters of a publication number
MaxClaimEls == 3    \* .claim elements of a page of plain claim elements
MaxBlobItems == 3   \* segments of a claims container's text
MaxSelEls == 2      \* .claim elements of a page that exercises the selectors

\* all concatenations of at most n pieces
RECURSIVE Concats(_, _)
Concats(pieces, n) ==
  IF n = 0 THEN {<<>>}
  ELSE LET shorter == Concats(pieces, n - 1) IN
       shorter \cup {p \o s : p \in pieces, s \in shorter}

\* all lists of at most n elements of S
ListsUpTo(S, n) == UNION {[1..k -> S] : k \in 0..n}

RawUrls == {<<"u">>, <<" ", "u", "\n">>}

AbstractPieces ==
  {<<"A", "b", "s", "t", "r", "a", "c", "t">>,
   <<"A", "B", "S", "T", "R", "A", "C", "T">>,
   <<"A", "b", "s">>, <<"x">>, <<":">>, <<"-">>, <<" ">>, <<"\n">>}

AbstractTexts == Concats(AbstractPieces, MaxPieces)

PubChars == {<<"U">>, <<"1">>, <<"_">>, <<"-">>, <<"/">>, <<".">>, <<" ">>}

PubTexts == Concats(PubChars, MaxPubLen)

ClaimTexts ==
  {<<"1", ".", " ", "a">>,                        \* 1. a
   <<"1", ".", " ", "b">>,                        \* 1. b
   <<"0", "1", ".", " ", "b">>,                   \* 01. b
   <<"0", ".", " ", "a">>,                        \* 0. a
   <<"2", ".", " ", "\n", "b", "\t", " ", "a">>,  \* 2. b a, with whitespace runs
   <<"1", " ", "a">>,                             \* 1 a   (no dot)
   <<"a", " ", "1", ".">>,                        \* a 1.  (no numeric prefix)
   <<"1", ".", "a">>,                             \* 1.a   (no space)
   <<"1", ".">>}                                  \* 1.    (no text)

BlobItems ==
  {<<"1", ".", " ", "a">>, <<"2", ".", "\t", " ", "b">>, <<"1", ".", " ", "c">>,
   <<"0", ".", " ", "a">>, <<"x">>, <<"1", ".">>, <<"3", " ", "b">>}

\* " ".join(items): what get_text(" ", strip=True) makes of a container's strings
RECURSIVE JoinSpace(_)
JoinSpace(items) ==
  IF items = <<>> THEN <<>>
  ELSE IF Len(items) = 1 THEN items[1]
  ELSE items[1] \o <<" ">> \o JoinSpace(Tail(items))

BlobTexts == {JoinSpace(items) : items \in ListsUpTo(BlobItems, MaxBlobItems)}

SelTexts == {<<"1", ".", " ", "a">>, <<"1", " ", "a">>, <<"x">>}

BasePage ==
  [dc_title |-> <<>>, title_el |-> <<>>, pub_meta |-> <<>>, abs_node |-> <<>>,
   desc_meta |-> <<>>, claim_els |-> <<>>, itemprop_boxes |-> <<>>,
   section_boxes |-> <<>>, nbytes |-> 0]

PlainEl(t) == [text |-> t, in_itemprop |-> FALSE, in_claims |-> FALSE]

\* title, publication number and abstract present, absent or empty
MetaPages ==
  {[BasePage EXCEPT !.dc_title = dt, !.title_el = te, !.pub_meta = pm,
                    !.abs_node = an, !.desc_meta = dm, !.nbytes = Len(dt) + Len(an)] :
     dt \in {<<>>, <<<<>>>>, <<<<" ", "T", " ", " ", "t">>>>},
     te \in {<<>>, <<<<"t", "\n">>>>},
     pm \in {<<>>, <<<<"U", "1">>>>},
     an \in {<<>>, <<<<>>>>, <<<<"A", "b", "s", "t", "r", "a", "c", "t", ":", " ", "x">>>>},
     dm \in {<<>>, <<<<>>>>, <<<<"y">>>>,
             <<<<"a", "b", "s", "t", "r", "a", "c", "t", " ", "-", " ", "y">>>>}}

\* the abstract in the abstract element, or in the description meta tag
AbstractPages ==
  {[BasePage EXCEPT !.abs_node = <<t>>] : t \in AbstractTexts}
  \cup {[BasePage EXCEPT !.desc_meta = <<t>>] :
          t \in Concats(AbstractPieces, MaxPieces - 1)}

PubPages == {[BasePage EXCEPT !.pub_meta = <<t>>] : t \in PubTexts}

\* .claim elements outside any claims container
TextPages ==
  {[BasePage EXCEPT !.claim_els = [i \in 1..Len(ts) |-> PlainEl(ts[i])]] :
     ts \in ListsUpTo(ClaimTexts, MaxClaimEls)}

\* no .claim element: one claims container with a text blob
BlobPages ==
  {[BasePage EXCEPT !.itemprop_boxes = <<t>>] : t \in BlobTexts}
  \cup {[BasePage EXCEPT !.section_boxes = <<JoinSpace(items)>>] :
          items \in ListsUpTo(BlobItems, MaxBlobItems - 1)}

SelEls == [text : SelTexts, in_itemprop : BOOLEAN, in_claims : BOOLEAN]

\* the [itemprop='claims'] elements of a page with the .claim elements els: the
\* one that holds the elements marked in_itemprop, or else any of `others`
ItempropBoxesOf(els, others) ==
  IF SelectSeq(els, InItemprop) # <<>>
  THEN <<JoinSpace(TextsOf(SelectSeq(els, InItemprop)))>>
  ELSE others

\* .claim elements inside and outside the containers, beside containers
SelectorPages ==
  {[BasePage EXCEPT !.claim_els = els,
                    !.itemprop_boxes = ItempropBoxesOf(els, ib),
                    !.section_boxes = sb] :
     els \in ListsUpTo(SelEls, MaxSelEls),
     ib \in {<<>>, <<<<"x">>, <<"2", ".", " ", "b">>>>},
     sb \in {<<>>, <<<<"3", ".", " ", "c", " ", "1", ".", " ", "a">>>>}}

Pages ==
  MetaPages \cup AbstractPages \cup PubPages \cup TextPages \cup BlobPages
    \cup SelectorPages

FetchErrors == {"transport", "timeout", "status"}

(***************************************************************************)
(* The run of the script (lines 280-298).                                  *)
(***************************************************************************)
Init ==
  /\ pc = "input"
  /\ url = <<>>
  /\ out_dir = FALSE
  /\ fetches = 0
  /\ error = "none"
  /\ soup = <<>>
  /\ claim_nodes = <<>>
  /\ claims = <<>>
  /\ alt_used = FALSE
  /\ data = <<>>
  /\ files = {}
  /\ printed = <<>>

\* line 282: url = input(...).strip()
ReadUrl(raw) ==
  /\ pc = "input"
  /\ url' = Strip(raw)
  /\ pc' = "mkdir"
  /\ UNCHANGED <<out_dir, fetches, error, soup, claim_nodes, claims, alt_used,
                 data, files, printed>>

\* lines 284-285
MakeOutDir ==
  /\ pc = "mkdir"
  /\ out_dir' = TRUE
  /\ pc' = "scrape"
  /\ UNCHANGED <<url, fetches, error, soup, claim_nodes, claims, alt_used,
                 data, files, printed>>

\* FetchFails with the error caught and an empty record returned
FetchFailsSwallowed(kind) ==
  /\ pc = "scrape"
  /\ fetches' = fetches + 1
  /\ error' = kind
  /\ data' = <<MakeRecord(url, BasePage, <<>>)>>
  /\ pc' = "write"
  /\ UNCHANGED <<url, out_dir, soup, claim_nodes, claims, alt_used, files, printed>>

\* lines 196-197 raising: requests.get (transport error, timeout) or
\* raise_for_status (bad status).  Nothing catches it: the script ends.
FetchFails(kind) ==
  /\ pc = "scrape"
  /\ fetches' = fetches + 1
  /\ error' = kind
  /\ pc' = "crashed"
  /\ UNCHANGED <<url, out_dir, soup, claim_nodes, claims, alt_used, data,
                 files, printed>>

\* lines 196-277 with a successful fetch, the server sending some page;
\* claim_nodes, claims and alt_used are the function's locals claim_nodes,
\* claims (as of line 245) and whether the block of line 235 ran
Scrape ==
  /\ pc = "scrape"
  /\ \E page \in Pages :
       /\ soup' = <<page>>
       /\ claim_nodes' = SelectClaimNodes(page)
       /\ alt_used' = FallbackNeeded(PrimaryAccepted(SelectClaimNodes(page)))
       /\ claims' = LocateClaims(page)
       /\ data' = <<MakeRecord(url, page, LocateClaims(page))>>
  /\ fetches' = fetches + 1
  /\ pc' = "write"
  /\ UNCHANGED <<url, out_dir, error, files, printed>>

\* lines 289-298: the file is named after the slug and holds the record
WriteOutput ==
  /\ pc = "write"
  /\ files' = files \cup {[stem |-> Slug(data[1].publication_number),
                           content |-> data[1]]}
  /\ printed' = <<[saved |-> Slug(data[1].publication_number),
                   title |-> data[1].title,
                   abstract_chars |-> Len(data[1].abstract),
                   claims_extracted |-> Len(data[1].claims)]>>
  /\ pc' = "done"
  /\ UNCHANGED <<url, out_dir, fetches, error, soup, claim_nodes, claims,
                 alt_used, data>>

Next ==
  \/ \E raw \in RawUrls : ReadUrl(raw)
  \/ MakeOutDir
  \/ \E kind \in FetchErrors : FetchFails(kind)
  \/ Scrape
  \/ WriteOutput

Spec == Init /\ [][Next]_vars

(***************************************************************************)
(* Properties.  Returned: scrape_google_patents has returned its record.   *)
(***************************************************************************)
Returned == data # <<>>

\* the list 1, 2, ..., n
UpTo(n) == [i \in 1..n |-> i]

\* "<digits>." at the start of c, stated on positions
HasNumberDot(c) ==
  \E n \in 1..Len(c) :
    /\ \A i \in 1..n : IsDigit(c[i])
    /\ n < Len(c)
    /\ c[n + 1] = "."

\* "<digits><whitespace>" at the start of c: a number, then no dot
HasNumberSpace(c) ==
  \E n \in 1..Len(c) :
    /\ \A i \in 1..n : IsDigit(c[i])
    /\ n < Len(c)
    /\ IsSpace(c[n + 1])

\* no leading or trailing whitespace, every whitespace character a single space
\* between two other characters
IsNormalized(s) ==
  \A i \in 1..Len(s) :
    IsSpace(s[i]) =>
      /\ s[i] = " "
      /\ 1 < i /\ i < Len(s)
      /\ ~IsSpace(s[i + 1])

\* C1: the claims of the record are the parsed items that are the first
\* occurrence of their claim_number, in first-seen order; no number occurs
\* twice, and a later item with a seen number changes nothing.
C1_FirstOccurrenceWins ==
  Returned =>
    LET parses(i) == ParseMatches(claims[i])
        number(i) == MakeClaim(claims[i]).claim_number
        first(i)  == parses(i) /\ \A j \in 1..(i - 1) : parses(j) => number(j) # number(i)
        firsts    == SelectSeq(UpTo(Len(claims)), first)
        result    == data[1].claims
    IN  /\ result = [k \in 1..Len(firsts) |-> MakeClaim(claims[firsts[k]])]
        /\ \A k, l \in 1..Len(result) :
             result[k].claim_number = result[l].claim_number => k = l

\* a later item repeats the number of an earlier one with another text, and
\* an item with another number follows the earlier one
C1_Witness ==
  /\ Returned
  /\ Len(data[1].claims) >= 2
  /\ \E i, j \in 1..Len(claims) :
       /\ i < j
       /\ ParseMatches(claims[i]) /\ ParseMatches(claims[j])
       /\ MakeClaim(claims[i]).claim_number = MakeClaim(claims[j]).claim_number
       /\ MakeClaim(claims[i]).text # MakeClaim(claims[j]).text

\* C2: a failed fetch ends the run at once: one fetch, no record, no file, no
\* report; a file is written only after a successful fetch and extraction.
C2_FetchFailureWritesNothing ==
  /\ fetches <= 1
  /\ error # "none" =>
       /\ pc = "crashed"
       /\ fetches = 1
       /\ data = <<>>
       /\ files = {}
       /\ printed = <<>>
  /\ files # {} =>
       /\ error = "none"
       /\ fetches = 1
       /\ Returned
       /\ \A f \in files : f.content = data[1]

\* the fetch failed on a bad status, after the output directory was made
C2_Witness ==
  /\ pc = "crashed"
  /\ error = "status"
  /\ out_dir
  /\ files = {}

\* C3 as stated: the abstract normalizer applied to its own result changes
\* nothing.
C3_Idempotent_Original ==
  Returned => normalize_abstract(data[1].abstract) = data[1].abstract

\* C3 amended: the result is whitespace-normalized, and a second application
\* changes nothing unless the result itself still starts with the label.
C3_IdempotentUnlessLabelRepeats ==
  Returned =>
    LET once == data[1].abstract IN
    /\ IsNormalized(once)
    /\ ~StartsWithLabel(once) => normalize_abstract(once) = once

\* the input carried the label once, followed by punctuation or whitespace and text
C3_Witness ==
  /\ Returned
  /\ soup[1].abs_node # <<>>
  /\ StartsWithLabel(clean_text(soup[1].abs_node[1]))
  /\ Len(data[1].abstract) + Len(LabelWord) < Len(clean_text(soup[1].abs_node[1]))
  /\ data[1].abstract # <<>>
  /\ ~StartsWithLabel(data[1].abstract)

\* the decimal value of a digit string, position by position
RECURSIVE Pow10(_)
Pow10(k) == IF k = 0 THEN 1 ELSE 10 * Pow10(k - 1)

RECURSIVE SumUpTo(_, _)
SumUpTo(f, n) == IF n = 0 THEN 0 ELSE f[n] + SumUpTo(f, n - 1)

DecimalValue(ds) ==
  SumUpTo([i \in 1..Len(ds) |-> DigitVal(ds[i]) * Pow10(Len(ds) - i)], Len(ds))

\* the digits c starts with, stated on positions
LeadingDigits(c) ==
  LET n == CHOOSE m \in 0..Len(c) :
             /\ \A i \in 1..m : IsDigit(c[i])
             /\ m < Len(c) => ~IsDigit(c[m + 1])
  IN  SubSeq(c, 1, n)

\* C4 as stated: every claim_number is at least 1.
C4_ClaimNumberAtLeastOne_Original ==
  Returned => \A k \in 1..Len(data[1].claims) : data[1].claims[k].claim_number >= 1

\* C4 amended: every claim_number is the decimal value of the leading digit
\* string of an item, so a natural number, and 0 exactly for a string of zeros.
C4_ClaimNumberIsDigitValue ==
  Returned =>
    \A k \in 1..Len(data[1].claims) :
      LET num == data[1].claims[k].claim_number IN
      /\ num \in Nat
      /\ \E i \in 1..Len(claims) :
           /\ HasNumberDot(claims[i])
           /\ num = DecimalValue(LeadingDigits(claims[i]))
           /\ num = 0 <=> \A d \in 1..Len(LeadingDigits(claims[i])) : claims[i][d] = "0"

\* a digit string with a leading zero gave the number 1
C4_Witness ==
  /\ Returned
  /\ \E i \in 1..Len(claims) : LeadingDigits(claims[i]) = <<"0", "1">>
  /\ \E k \in 1..Len(data[1].claims) : data[1].claims[k].claim_number = 1

\* C5: every claim text of the record is non-empty and whitespace-normalized,
\* from the primary tier and from the fallback tier.
C5_ClaimTextNormalized ==
  Returned =>
    \A k \in 1..Len(data[1].claims) :
      /\ data[1].claims[k].text # <<>>
      /\ IsNormalized(data[1].claims[k].text)

\* a claim came out of an element whose text had whitespace runs
C5_Witness ==
  /\ Returned
  /\ ~alt_used
  /\ \E i \in 1..Len(claim_nodes) :
       /\ ~IsNormalized(claim_nodes[i])
       /\ HasNumberDot(claim_nodes[i])
       /\ \E k \in 1..Len(data[1].claims) :
            /\ Len(data[1].claims[k].text) > 1
            /\ data[1].claims[k].claim_number = DecimalValue(LeadingDigits(claim_nodes[i]))

\* C6 as stated: the stem is the publication number with each character
\* outside letters, digits, underscore and hyphen replaced, in place, by an
\* underscore, or "patent" for an empty publication number.
C6_SlugPerCharacter_Original ==
  \A f \in files :
    LET pub == f.content.publication_number IN
    f.stem = IF pub = <<>> THEN PatentWord
             ELSE [i \in 1..Len(pub) |-> IF IsSlugChar(pub[i]) THEN pub[i] ELSE "_"]

\* C6 amended: each maximal run of such characters is replaced by one
\* underscore; the other characters are kept, in order.
C6_SlugRunsCollapsed ==
  \A f \in files :
    LET pub     == f.content.publication_number
        keep(i) == IsSlugChar(pub[i]) \/ i = 1 \/ IsSlugChar(pub[i - 1])
        kept    == SelectSeq(UpTo(Len(pub)), keep)
    IN  f.stem = IF pub = <<>> THEN PatentWord
                 ELSE [k \in 1..Len(kept) |->
                         IF IsSlugChar(pub[kept[k]]) THEN pub[kept[k]] ELSE "_"]

\* a file named after a publication number with a run of two replaced characters
C6_Witness ==
  \E f \in files :
    LET pub == f.content.publication_number IN
    /\ \E i \in 1..(Len(pub) - 1) : ~IsSlugChar(pub[i]) /\ ~IsSlugChar(pub[i + 1])
    /\ \E i \in 1..Len(pub) : IsSlugChar(pub[i])
    /\ Len(f.stem) < Len(pub)

\* C7: the abstract is the normalizer applied to the abstract element's text
\* if the element exists, else to the description meta tag's content if there
\* is one, else empty.
C7_AbstractFallbackOrder ==
  Returned =>
    LET page == soup[1]
        abs  == data[1].abstract
    IN  /\ page.abs_node # <<>> => abs = normalize_abstract(page.abs_node[1])
        /\ (page.abs_node = <<>> /\ page.desc_meta # <<>> /\ page.desc_meta[1] # <<>>)
             => /\ abs = normalize_abstract(page.desc_meta[1])
                /\ IsNormalized(abs)
        /\ (page.abs_node = <<>> /\ (page.desc_meta = <<>> \/ page.desc_meta[1] = <<>>))
             => abs = <<>>

\* no abstract element; the description meta tag carries a labelled abstract
C7_Witness ==
  /\ Returned
  /\ soup[1].abs_node = <<>>
  /\ soup[1].desc_meta # <<>>
  /\ StartsWithLabel(soup[1].desc_meta[1])
  /\ data[1].abstract # <<>>
  /\ Len(data[1].abstract) < Len(soup[1].desc_meta[1])

\* the cleaned texts of the selected nodes that start with a number and a
\* whitespace or a number, a dot and a whitespace
AcceptedOf(nodes) ==
  LET ok(i) == LET t == clean_text(nodes[i]) IN
               \E n \in 1..Len(t) :
                 /\ \A j \in 1..n : IsDigit(t[j])
                 /\ \/ n < Len(t) /\ IsSpace(t[n + 1])
                    \/ n + 1 < Len(t) /\ t[n + 1] = "." /\ IsSpace(t[n + 2])
      idx   == SelectSeq(UpTo(Len(nodes)), ok)
  IN  [k \in 1..Len(idx) |-> clean_text(nodes[idx[k]])]

\* C8: the selected nodes are the matches of the first selector that matches
\* anything, never a merge; the fallback runs exactly when the primary tier
\* accepted nothing; the raw claims are the primary tier's items or the
\* segments of one container, never both.
C8_OneClaimSource ==
  Returned =>
    LET els   == soup[1].claim_els
        inA(i) == els[i].in_itemprop
        inB(i) == els[i].in_claims
        idxA  == SelectSeq(UpTo(Len(els)), inA)
        idxB  == SelectSeq(UpTo(Len(els)), inB)
        a     == [k \in 1..Len(idxA) |-> els[idxA[k]].text]
        b     == [k \in 1..Len(idxB) |-> els[idxB[k]].text]
        c     == [k \in 1..Len(els) |-> els[k].text]
        boxes == soup[1].itemprop_boxes \o soup[1].section_boxes
    IN  /\ a # <<>> => claim_nodes = a
        /\ (a = <<>> /\ b # <<>>) => claim_nodes = b
        /\ (a = <<>> /\ b = <<>>) => claim_nodes = c
        /\ alt_used <=> AcceptedOf(claim_nodes) = <<>>
        /\ ~alt_used => claims = AcceptedOf(claim_nodes)
        /\ alt_used =>
             \/ claims = <<>>
             \/ \E k \in 1..Len(boxes) : claims = FallbackParts(clean_text(boxes[k]))

\* the second selector decided: it matches fewer elements than the third
C8_Witness ==
  /\ Returned
  /\ \A i \in 1..Len(soup[1].claim_els) : ~soup[1].claim_els[i].in_itemprop
  /\ \E i \in 1..Len(soup[1].claim_els) : soup[1].claim_els[i].in_claims
  /\ Len(claim_nodes) < Len(soup[1].claim_els)
  /\ claims # <<>>
  /\ ~alt_used

\* C9: only an item of the form "<number>.<rest>" becomes a claim: an item
\* the primary tier accepted for its number and space is dropped and not
\* counted, and an item without a leading number is no raw item at all.
C9_DotRequiredToParse ==
  Returned =>
    LET dotted == {i \in 1..Len(claims) : HasNumberDot(claims[i])}
        result == data[1].claims
    IN  /\ Len(result) <= Cardinality(dotted)
        /\ \A k \in 1..Len(result) :
             \E i \in dotted :
               /\ result[k].claim_number = DecimalValue(LeadingDigits(claims[i]))
               /\ result[k].text =
                    Strip(SubSeq(claims[i], Len(LeadingDigits(claims[i])) + 2, Len(claims[i])))
        /\ \A i \in 1..Len(claims) : claims[i] # <<>> /\ IsDigit(claims[i][1])

\* the primary tier accepted a number-and-space item beside a dotted one, and
\* passed over an element without a leading number
C9_Witness ==
  /\ Returned
  /\ \E i \in 1..Len(claims) : HasNumberSpace(claims[i]) /\ ~HasNumberDot(claims[i])
  /\ \E i \in 1..Len(claim_nodes) : ~IsDigit(claim_nodes[i][1])
  /\ Len(data[1].claims) = 1
  /\ Len(claims) = 2

\* C10: once the primary tier has accepted an item the fallback is not
\* consulted, also when parsing then drops every accepted item: the claims
\* are empty whatever the claims containers hold.
C10_FallbackDecidedBeforeParsing ==
  Returned =>
    LET accepted == AcceptedOf(claim_nodes) IN
    accepted # <<>> =>
      /\ ~alt_used
      /\ claims = accepted
      /\ (\A i \in 1..Len(accepted) : ~HasNumberDot(accepted[i]))
           => data[1].claims = <<>>

\* every accepted item lacks the dot, the claims are empty, and a claims
\* container of the page holds validly numbered text
C10_Witness ==
  /\ Returned
  /\ AcceptedOf(claim_nodes) # <<>>
  /\ \A i \in 1..Len(claims) : ~HasNumberDot(claims[i])
  /\ data[1].claims = <<>>
  /\ \E k \in 1..Len(soup[1].itemprop_boxes \o soup[1].section_boxes) :
       ParseClaims(FallbackParts(clean_text(
         (soup[1].itemprop_boxes \o soup[1].section_boxes)[k]))) # <<>>

====
